---- MODULE Spec2Model ----
(***************************************************************************)
(* Model of the novel reader extension's text-to-speech pipeline:          *)
(* segmentation (splitTextPlain / splitText), response decoding            *)
(* (synthesizeSegmentLocal / synthesizeSegment), orchestration             *)
(* (synthesizeAll) and the popup's playback controller (playNext,          *)
(* stopPlayback, the Start and Stop click handlers).                       *)
(*                                                                         *)
(* JavaScript strings are modelled as sequences of one-character strings,  *)
(* byte buffers as sequences of numbers in 0..255.                         *)
(***************************************************************************)
EXTENDS Integers, Sequences, FiniteSets, TLC

VARIABLES
  \* ---- segmenter run (splitTextPlain / splitText) ----
  sp_text,        \* the argument `text`
  sp_maxLength,   \* the argument `maxLength`
  sp_start,       \* the local `start`
  sp_segments,    \* the local `segments`
  sp_pc,          \* "idle" | "loop" | "returned"
  \* ---- one response taken through synthesizeSegmentLocal ----
  d_resp,         \* the response of fetch
  d_frags,        \* the fragments the server built the body from
  d_pc,           \* "idle" | "response" | "scan" | "done"
  d_text,         \* the local `text` (response.text())
  d_scan,         \* the scan's locals: lastIndex, audioChunks, totalLength
  d_execs,        \* the number of regex.exec calls made
  d_result,       \* what the function returned or threw
  \* ---- the popup ----
  startBtnDisabled,  \* startBtn.disabled
  stopBtnDisabled,   \* stopBtn.disabled
  statusEl,          \* statusEl.textContent
  currentUrls,       \* the object URLs of the playback queue
  currentIndex,      \* the cursor into currentUrls
  audioPlayer,       \* the audio element: src, whether it plays, onended
  objectUrls,        \* every object URL created: owner and revocations
  store,             \* chrome.storage.local
  runs,              \* one entry per Start click: the async handler's state
  playLog,           \* the play and ended events of the audio element
  env                \* what the popup's surroundings do in this life of it:
                     \* the Start clicks the user makes, the texts the page
                     \* answers with, the responses the endpoint gives,
                     \* the forms the user submits on the options page

sp_vars == <<sp_text, sp_maxLength, sp_start, sp_segments, sp_pc>>

d_vars == <<d_resp, d_frags, d_pc, d_text, d_scan, d_execs, d_result>>

p_vars == <<startBtnDisabled, stopBtnDisabled, statusEl, currentUrls,
            currentIndex, audioPlayer, objectUrls, store, runs, playLog,
            env>>

vars == <<sp_vars, d_vars, p_vars>>

(***************************************************************************)
(* Bounds of the model.                                                    *)
(***************************************************************************)
MaxTextLen == 4      \* longest text given to the segmenter
MaxMaxLength == 5    \* largest maxLength given to the segmenter
MaxNegLength == 2    \* maxLength ranges over -MaxNegLength..MaxMaxLength
MaxIter == 6         \* iterations explored of a loop that never ends
MaxFrags == 2        \* fragments a response body is built from
MaxRuns == 2         \* Start clicks in one life of the popup (Spec)
SynthClicks == 1     \* Start clicks in one life of the popup (SpecSynth)

(***************************************************************************)
(* Generic helpers.                                                        *)
(***************************************************************************)
Min(a, b) == IF a < b THEN a ELSE b
Max(a, b) == IF a > b THEN a ELSE b

RECURSIVE Concat(_)
Concat(ss) == IF ss = <<>> THEN <<>> ELSE Head(ss) \o Concat(Tail(ss))

SeqsUpTo(S, n) == UNION {[1..k -> S] : k \in 0..n}

(***************************************************************************)
(* String.prototype.slice(start, end): negative indices count from the     *)
(* end, both are clamped to the string, an empty range gives "".           *)
(***************************************************************************)
SliceIndex(len, k) == IF k < 0 THEN Max(len + k, 0) ELSE Min(k, len)

Slice(s, from, to) ==
  SubSeq(s, SliceIndex(Len(s), from) + 1, SliceIndex(Len(s), to))

(***************************************************************************)
(* splitTextPlain (popup.js) and splitText (background.js): the same loop. *)
(* The loop state is [start, segments].                                    *)
(***************************************************************************)
SplitCond(text, st) == st.start < Len(text)

\* Mutant: the slice stops one character early.
SplitSliceEnd_OffByOne(st, maxLength) == st.start + maxLength - 1

SplitSliceEnd(st, maxLength) == st.start + maxLength

SplitBody(text, maxLength, st) ==
  [start    |-> st.start + maxLength,
   segments |-> Append(st.segments,
                       Slice(text, st.start, SplitSliceEnd(st, maxLength)))]

SplitInit == [start |-> 0, segments |-> <<>>]

\* The loop run for at most `fuel` iterations: [returned, segments].
RECURSIVE SplitRun(_, _, _, _)
SplitRun(text, maxLength, st, fuel) ==
  IF ~SplitCond(text, st) THEN [returned |-> TRUE, segments |-> st.segments]
  ELSE IF fuel = 0 THEN [returned |-> FALSE, segments |-> st.segments]
  ELSE SplitRun(text, maxLength, SplitBody(text, maxLength, st), fuel - 1)

\* A loop that advances `start` by at least one per iteration ends within
\* Len(text) iterations; one that has not ended by then never advances.
splitTextPlain(text, maxLength) ==
  SplitRun(text, maxLength, SplitInit, Len(text) + 1)

(***************************************************************************)
(* Characters and bytes.  A body is a sequence of bytes; response.text()   *)
(* decodes it as UTF-8: an ASCII byte is its character, and a byte in      *)
(* 0xF8..0xFF, which no UTF-8 sequence contains, is U+FFFD.  The bodies of *)
(* the model hold no other byte.  (The grave accent, which a TLA+ string   *)
(* cannot hold, is written U+0060.)                                        *)
(***************************************************************************)
AsciiPrintable ==
  <<" ", "!", "\"", "#", "$", "%", "&", "'", "(", ")", "*", "+", ",", "-",
    ".", "/", "0", "1", "2", "3", "4", "5", "6", "7", "8", "9", ":", ";",
    "<", "=", ">", "?", "@", "A", "B", "C", "D", "E", "F", "G", "H", "I",
    "J", "K", "L", "M", "N", "O", "P", "Q", "R", "S", "T", "U", "V", "W",
    "X", "Y", "Z", "[", "\\", "]", "^", "_", "U+0060", "a", "b", "c", "d", "e",
    "f", "g", "h", "i", "j", "k", "l", "m", "n", "o", "p", "q", "r", "s",
    "t", "u", "v", "w", "x", "y", "z", "{", "|", "}", "~">>

CharOfByte(b) ==
  IF b = 10 THEN "\n"
  ELSE IF b = 9 THEN "\t"
  ELSE IF b >= 32 /\ b <= 126 THEN AsciiPrintable[b - 31]
  ELSE "U+FFFD"

ResponseText(body) == [i \in 1..Len(body) |-> CharOfByte(body[i])]

\* The server's side: the bytes of an ASCII text.
ByteOfChar(c) == CHOOSE b \in {9, 10} \cup (32..126) : CharOfByte(b) = c

Utf8Encode(s) == [i \in 1..Len(s) |-> ByteOfChar(s[i])]

UpperCase ==
  <<"A", "B", "C", "D", "E", "F", "G", "H", "I", "J", "K", "L", "M", "N",
    "O", "P", "Q", "R", "S", "T", "U", "V", "W", "X", "Y", "Z">>

LowerCase ==
  <<"a", "b", "c", "d", "e", "f", "g", "h", "i", "j", "k", "l", "m", "n",
    "o", "p", "q", "r", "s", "t", "u", "v", "w", "x", "y", "z">>

LowerChar(c) ==
  IF \E k \in 1..Len(UpperCase) : UpperCase[k] = c
  THEN LowerCase[CHOOSE k \in 1..Len(UpperCase) : UpperCase[k] = c]
  ELSE c

\* String.prototype.toLowerCase
ToLowerCase(s) == [i \in 1..Len(s) |-> LowerChar(s[i])]

\* String.prototype.includes
Includes(s, sub) ==
  \E i \in 0..(Len(s) - Len(sub)) : SubSeq(s, i + 1, i + Len(sub)) = sub

StrApplicationJson ==
  <<"a", "p", "p", "l", "i", "c", "a", "t", "i", "o", "n", "/", "j", "s",
    "o", "n">>

StrText == <<"t", "e", "x", "t">>

StrNull == <<"n", "u", "l", "l">>

(***************************************************************************)
(* response.headers.get('Content-Type') || '' and the test on it.  A       *)
(* header is [present, value]; get returns null for an absent one.         *)
(***************************************************************************)
ContentTypeOf(resp) ==
  IF resp.contentType.present THEN resp.contentType.value ELSE <<>>

\* Mutant: the content type is tested without being lower-cased.
IsTextual_CaseSensitive(contentType) ==
  Includes(contentType, StrApplicationJson) \/ Includes(contentType, StrText)

\* Mutant: any JSON-like subtype is taken for text.
IsTextual_AnyJson(contentType) ==
  LET lowerType == ToLowerCase(contentType)
  IN Includes(lowerType, <<"j", "s", "o", "n">>) \/ Includes(lowerType, StrText)

IsTextual(contentType) ==
  LET lowerType == ToLowerCase(contentType)
  IN Includes(lowerType, StrApplicationJson) \/ Includes(lowerType, StrText)

(***************************************************************************)
(* atob: the forgiving-base64 decode.  The result is the sequence of the   *)
(* char codes of the binary string, which the code copies into a           *)
(* Uint8Array one by one.                                                  *)
(***************************************************************************)
B64Alphabet ==
  <<"A", "B", "C", "D", "E", "F", "G", "H", "I", "J", "K", "L", "M", "N",
    "O", "P", "Q", "R", "S", "T", "U", "V", "W", "X", "Y", "Z", "a", "b",
    "c", "d", "e", "f", "g", "h", "i", "j", "k", "l", "m", "n", "o", "p",
    "q", "r", "s", "t", "u", "v", "w", "x", "y", "z", "0", "1", "2", "3",
    "4", "5", "6", "7", "8", "9", "+", "/">>

IsB64Char(c) == \E k \in 1..Len(B64Alphabet) : B64Alphabet[k] = c

B64Value(c) == (CHOOSE k \in 1..Len(B64Alphabet) : B64Alphabet[k] = c) - 1

AsciiWhitespace == {" ", "\t", "\n", "\f", "\r"}

RECURSIVE StripWhitespace(_)
StripWhitespace(s) ==
  IF s = <<>> THEN <<>>
  ELSE IF Head(s) \in AsciiWhitespace THEN StripWhitespace(Tail(s))
  ELSE <<Head(s)>> \o StripWhitespace(Tail(s))

\* With a length divisible by 4, one or two trailing "=" are removed.
StripPadding(s) ==
  IF Len(s) % 4 # 0 \/ Len(s) = 0 THEN s
  ELSE IF s[Len(s)] # "=" THEN s
  ELSE IF s[Len(s) - 1] = "=" THEN SubSeq(s, 1, Len(s) - 2)
  ELSE SubSeq(s, 1, Len(s) - 1)

\* The bytes of a padding-free base64 text whose length is not 1 mod 4.
RECURSIVE B64Bytes(_)
B64Bytes(s) ==
  IF Len(s) = 0 THEN <<>>
  ELSE IF Len(s) = 2 THEN
    <<(B64Value(s[1]) * 64 + B64Value(s[2])) \div 16>>
  ELSE IF Len(s) = 3 THEN
    LET n == (B64Value(s[1]) * 4096 + B64Value(s[2]) * 64 + B64Value(s[3]))
             \div 4
    IN <<n \div 256, n % 256>>
  ELSE
    LET n == B64Value(s[1]) * 262144 + B64Value(s[2]) * 4096
             + B64Value(s[3]) * 64 + B64Value(s[4])
    IN <<n \div 65536, (n \div 256) % 256, n % 256>>
       \o B64Bytes(SubSeq(s, 5, Len(s)))

Atob(b64) ==
  LET data == StripPadding(StripWhitespace(b64))
  IN IF Len(data) % 4 = 1 \/ \E i \in 1..Len(data) : ~IsB64Char(data[i])
     THEN [ok |-> FALSE, bytes |-> <<>>]
     ELSE [ok |-> TRUE, bytes |-> B64Bytes(data)]

(***************************************************************************)
(* The global regular expression of the scan and regex.exec(text): the     *)
(* key DataKey, then the characters up to the next quote (group 1), then   *)
(* that quote; the leftmost match at or after lastIndex (0-based) or none. *)
(***************************************************************************)
DataKey == <<"\"", "d", "a", "t", "a", "\"", ":", "\"">>

KeyAt(text, p) ==
  /\ p + Len(DataKey) <= Len(text)
  /\ SubSeq(text, p + 1, p + Len(DataKey)) = DataKey

\* The 0-based index of the first quote at or after `from`, or -1.
ClosingQuote(text, from) ==
  LET qs == {q \in from..(Len(text) - 1) : text[q + 1] = "\""}
  IN IF qs = {} THEN 0 - 1 ELSE CHOOSE q \in qs : \A r \in qs : q <= r

MatchAt(text, p) ==
  KeyAt(text, p) /\ ClosingQuote(text, p + Len(DataKey)) >= 0

RegexExec(text, lastIndex) ==
  LET ps == {p \in lastIndex..(Len(text) - 1) : MatchAt(text, p)}
  IN IF ps = {} THEN [found |-> FALSE, group1 |-> <<>>, lastIndex |-> 0]
     ELSE LET p == CHOOSE x \in ps : \A y \in ps : x <= y
              q == ClosingQuote(text, p + Len(DataKey))
          IN [found |-> TRUE,
              group1 |-> SubSeq(text, p + Len(DataKey) + 1, q),
              lastIndex |-> q + 1]

(***************************************************************************)
(* The scan of synthesizeSegmentLocal / synthesizeSegment.  The scan state *)
(* is [lastIndex, audioChunks, totalLength].                               *)
(***************************************************************************)
ScanInit == [lastIndex |-> 0, audioChunks |-> <<>>, totalLength |-> 0]

\* if (b64 && b64 !== 'null')
ChunkWanted(b64) == b64 # <<>> /\ b64 # StrNull

\* The body of the while loop for a match m.
ScanBody(st, m) ==
  LET decoded == Atob(m.group1)
  IN IF ChunkWanted(m.group1) /\ decoded.ok
     THEN [lastIndex   |-> m.lastIndex,
           audioChunks |-> Append(st.audioChunks, decoded.bytes),
           totalLength |-> st.totalLength + Len(decoded.bytes)]
     ELSE [st EXCEPT !.lastIndex = m.lastIndex]

\* merged = new Uint8Array(totalLength); merged.set(chunk, offset) ...
RECURSIVE ChunkOffset(_, _)
ChunkOffset(chunks, k) ==
  IF k = 1 THEN 0 ELSE ChunkOffset(chunks, k - 1) + Len(chunks[k - 1])

Merge(chunks, totalLength) ==
  [i \in 1..totalLength |->
     LET ks == {k \in 1..Len(chunks) :
                  /\ ChunkOffset(chunks, k) < i
                  /\ i <= ChunkOffset(chunks, k) + Len(chunks[k])}
     IN IF ks = {} THEN 0
        ELSE LET k == CHOOSE x \in ks : TRUE
             IN chunks[k][i - ChunkOffset(chunks, k)]]

Returned(buffer) ==
  [ok |-> TRUE, buffer |-> buffer,
   error |-> [message |-> "", status |-> 0, statusText |-> ""]]

Threw(message, status, statusText) ==
  [ok |-> FALSE, buffer |-> <<>>,
   error |-> [message |-> message, status |-> status,
              statusText |-> statusText]]

MsgNoAudio == "No audio data returned from API."
MsgHttp == "HTTP ${response.status} - ${response.statusText}"

\* Mutant: the test is on the number of bytes, not of chunks.
ScanResult_ByLength(st) ==
  IF st.totalLength = 0 THEN Threw(MsgNoAudio, 0, "")
  ELSE Returned(Merge(st.audioChunks, st.totalLength))

\* if (!audioChunks.length) throw ...; else return merged.buffer
ScanResult(st) ==
  IF Len(st.audioChunks) = 0 THEN Threw(MsgNoAudio, 0, "")
  ELSE Returned(Merge(st.audioChunks, st.totalLength))

RECURSIVE ScanRun(_, _)
ScanRun(text, st) ==
  LET m == RegexExec(text, st.lastIndex)
  IN IF ~m.found THEN ScanResult(st) ELSE ScanRun(text, ScanBody(st, m))

\* What synthesizeSegmentLocal makes of the response of its fetch.
DecodeResponse(resp) ==
  IF ~resp.ok THEN Threw(MsgHttp, resp.status, resp.statusText)
  ELSE IF IsTextual(ContentTypeOf(resp))
       THEN ScanRun(ResponseText(resp.body), ScanInit)
       ELSE Returned(resp.body)

(***************************************************************************)
(* Responses.  A response is [ok, status, statusText, contentType, body].  *)
(***************************************************************************)
Header(value) == [present |-> TRUE, value |-> value]
NoHeader == [present |-> FALSE, value |-> <<>>]

OkResponse(contentType, body) ==
  [ok |-> TRUE, status |-> 200, statusText |-> "OK",
   contentType |-> contentType, body |-> body]

ErrorResponse(status, statusText, contentType, body) ==
  [ok |-> FALSE, status |-> status, statusText |-> statusText,
   contentType |-> contentType, body |-> body]

NoResponse == OkResponse(NoHeader, <<>>)
NoResult == Threw("", 0, "")

\* Content types: textual ones in several spellings, binary ones, one whose
\* subtype happens to contain "text", the newline-delimited JSON type, which
\* contains neither tested word, and an absent header.
CtJson == Header(StrApplicationJson)
CtJsonCharset ==
  Header(<<"A", "p", "p", "l", "i", "c", "a", "t", "i", "o", "n", "/", "J",
           "S", "O", "N", ";", " ", "c", "h", "a", "r", "s", "e", "t", "=",
           "u", "t", "f", "-", "8">>)
CtEventStream ==
  Header(<<"t", "e", "x", "t", "/", "e", "v", "e", "n", "t", "-", "s", "t",
           "r", "e", "a", "m">>)
CtTextUpper == Header(<<"T", "E", "X", "T", "/", "P", "L", "A", "I", "N">>)
CtMpeg == Header(<<"a", "u", "d", "i", "o", "/", "m", "p", "e", "g">>)
CtOctet ==
  Header(<<"a", "p", "p", "l", "i", "c", "a", "t", "i", "o", "n", "/", "o",
           "c", "t", "e", "t", "-", "s", "t", "r", "e", "a", "m">>)
CtNdjson ==
  Header(<<"a", "p", "p", "l", "i", "c", "a", "t", "i", "o", "n", "/", "x",
           "-", "n", "d", "j", "s", "o", "n">>)
CtContext ==
  Header(<<"a", "u", "d", "i", "o", "/", "x", "-", "c", "o", "n", "t", "e",
           "x", "t">>)

TextualTypes == {CtJson, CtJsonCharset, CtEventStream, CtTextUpper, CtContext}
BinaryTypes == {CtMpeg, CtOctet, CtNdjson, NoHeader}
ContentTypes == TextualTypes \cup BinaryTypes

(***************************************************************************)
(* The fragments a server builds a body from.  A data fragment is one JSON *)
(* object with a quoted data field; it carries what the value stands for:  *)
(* whether it is base64 (`valid`) and the bytes it encodes (`bytes`, from  *)
(* the base64 standard, not from Atob).                                    *)
(***************************************************************************)
DataObject(value) ==
  <<"{", "\"", "d", "a", "t", "a", "\"", ":", "\"">> \o value \o <<"\"", "}">>

DataFragment(value, valid, bytes) ==
  [text |-> DataObject(value), data |-> TRUE, value |-> value,
   valid |-> valid, bytes |-> bytes]

Filler(text) ==
  [text |-> text, data |-> FALSE, value |-> <<>>, valid |-> FALSE,
   bytes |-> <<>>]

DataFragments ==
  { DataFragment(<<"Q", "U", "I", "=">>, TRUE, <<65, 66>>),
    DataFragment(<<"Q", "Q", "=", "=">>, TRUE, <<65>>),
    DataFragment(<<"Q", "U", "J", "D">>, TRUE, <<65, 66, 67>>),
    DataFragment(<<"/", "+", "8", "=">>, TRUE, <<255, 239>>),
    DataFragment(<<"Q", " ", "Q", "=", "=">>, TRUE, <<65>>),
    DataFragment(<<" ">>, TRUE, <<>>),
    DataFragment(<<>>, FALSE, <<>>),
    DataFragment(StrNull, FALSE, <<>>),
    DataFragment(<<"Q">>, FALSE, <<>>),
    DataFragment(<<"Q", "Q", "=">>, FALSE, <<>>),
    DataFragment(<<"Q", "!", "=", "=">>, FALSE, <<>>) }

Fillers ==
  { Filler(<<"\n">>),
    Filler(<<"{", "\"", "c", "o", "d", "e", "\"", ":", "0", ",", "\"", "m",
             "e", "s", "s", "a", "g", "e", "\"", ":", "\"", "o", "k", "\"",
             "}">>),
    Filler(<<"{", "\"", "d", "a", "t", "a", "\"", ":", "n", "u", "l", "l",
             "}">>),
    Filler(<<"{", "\"", "m", "e", "t", "a", "d", "a", "t", "a", "\"", ":",
             "\"", "Q", "Q", "=", "=", "\"", "}">>) }

Fragments == DataFragments \cup Fillers

BodyOf(frags) ==
  Utf8Encode(Concat([i \in 1..Len(frags) |-> frags[i].text]))

\* Raw audio: bytes that are no text.
RawBodies == {<<>>, <<255, 251, 0, 65>>}

(***************************************************************************)
(* The settings store and getSettingsFromStorage.                          *)
(***************************************************************************)
DefaultMaxLength == 5000

Settings(apiKey, resourceId, speaker, format, maxLength) ==
  [apiKey |-> apiKey, resourceId |-> resourceId, speaker |-> speaker,
   additions |-> "", format |-> format, sampleRate |-> 24000,
   maxLength |-> maxLength]

\* What the options page can have saved: complete settings with several
\* maxLength values, and settings with one credential left empty.
StoreConfigs ==
  { Settings("key", "res", "spk", "mp3", 1),
    Settings("key", "res", "spk", "pcm", 2),
    Settings("key", "res", "spk", "mp3", 0),
    Settings("", "res", "spk", "mp3", 2),
    Settings("key", "", "spk", "mp3", 2),
    Settings("key", "res", "", "mp3", 2) }

PlaybackStores ==
  { Settings("key", "res", "spk", "mp3", 1),
    Settings("key", "res", "", "mp3", 1) }

getSettingsFromStorage == store

\* Mutant: the speaker is not checked.
SettingsComplete_NoSpeaker(settings) ==
  ~(settings.apiKey = "" \/ settings.resourceId = "")

\* if (!settings.apiKey || !settings.resourceId || !settings.speaker)
SettingsComplete(settings) ==
  ~(settings.apiKey = "" \/ settings.resourceId = "" \/ settings.speaker = "")

\* Number(settings.maxLength) || 5000
MaxLengthOf(settings) ==
  IF settings.maxLength = 0 THEN DefaultMaxLength ELSE settings.maxLength

MsgPrecondition ==
  "API key, resource ID and speaker must be configured in the options page."
MsgFetchFailed == "Failed to fetch"

(***************************************************************************)
(* The text the content script answers with, and String.prototype.trim.    *)
(***************************************************************************)
RECURSIVE TrimStart(_)
TrimStart(s) ==
  IF s # <<>> /\ Head(s) \in AsciiWhitespace THEN TrimStart(Tail(s)) ELSE s

RECURSIVE TrimEnd(_)
TrimEnd(s) ==
  IF s # <<>> /\ s[Len(s)] \in AsciiWhitespace
  THEN TrimEnd(SubSeq(s, 1, Len(s) - 1)) ELSE s

Trim(s) == TrimEnd(TrimStart(s))

PageTexts == {<<>>, <<" ">>, <<"a", " ">>, <<"a", "b", "c">>}

(***************************************************************************)
(* The options page: parseInt(value, 10) || default, and the record the    *)
(* submit handler writes to the store.                                     *)
(***************************************************************************)
DecimalDigits == <<"0", "1", "2", "3", "4", "5", "6", "7", "8", "9">>

IsDigit(c) == \E d \in 1..10 : DecimalDigits[d] = c

DigitValue(c) == (CHOOSE d \in 1..10 : DecimalDigits[d] = c) - 1

\* The longest prefix of s made of decimal digits.
RECURSIVE DigitsPrefix(_)
DigitsPrefix(s) ==
  IF s # <<>> /\ IsDigit(Head(s))
  THEN <<Head(s)>> \o DigitsPrefix(Tail(s))
  ELSE <<>>

RECURSIVE DecimalValue(_, _)
DecimalValue(digits, acc) ==
  IF digits = <<>> THEN acc
  ELSE DecimalValue(Tail(digits), 10 * acc + DigitValue(Head(digits)))

\* parseInt(s, 10): leading white space is skipped, a sign is taken, then
\* the digits that follow; with no digit the result is NaN.
ParseInt(s) ==
  LET t == TrimStart(s)
      signed == t # <<>> /\ Head(t) \in {"-", "+"}
      digits == DigitsPrefix(IF signed THEN Tail(t) ELSE t)
  IN IF digits = <<>>
     THEN [nan |-> TRUE, value |-> 0]
     ELSE [nan |-> FALSE,
           value |-> IF signed /\ Head(t) = "-"
                     THEN 0 - DecimalValue(digits, 0)
                     ELSE DecimalValue(digits, 0)]

\* n || fallback, for a number n: NaN and 0 are falsy.
NumberOr(n, fallback) == IF n.nan \/ n.value = 0 THEN fallback ELSE n.value

\* The form as the user filled it in; the credentials are given trimmed.
OptionsForm(apiKey, resourceId, speaker, format, maxLength) ==
  [apiKey |-> apiKey, resourceId |-> resourceId, speaker |-> speaker,
   format |-> format, maxLength |-> maxLength]

\* const data = {...} of the submit handler.
OptionsData(form) ==
  Settings(form.apiKey, form.resourceId, form.speaker, form.format,
           NumberOr(ParseInt(form.maxLength), DefaultMaxLength))

\* Forms submitted while the popup is open: another format with a maxLength
\* of 1, of -1, of 0 and one that is no number.
FormWav == OptionsForm("key", "res", "spk", "wav", <<"1">>)

SynthForms ==
  { FormWav,
    OptionsForm("key", "res", "spk", "mp3", <<" ", "-", "1">>),
    OptionsForm("key", "res", "spk", "mp3", <<"0">>),
    OptionsForm("key", "res", "spk", "mp3", <<"a", "1">>),
    OptionsForm("key", "res", "spk", "mp3", <<"1", "2", "p", "x">>) }

(***************************************************************************)
(* The responses the synthesis endpoint gives in the popup's runs.         *)
(***************************************************************************)
RespJson ==
  OkResponse(CtJson,
             BodyOf(<<DataFragment(<<"Q", "U", "I", "=">>, TRUE, <<65, 66>>),
                      DataFragment(<<"Q", "Q", "=", "=">>, TRUE, <<65>>)>>))
RespBinary == OkResponse(CtMpeg, <<255, 251, 0, 65>>)
RespNoAudio == OkResponse(CtJson, BodyOf(<<DataFragment(StrNull, FALSE, <<>>)>>))
RespHttp500 == ErrorResponse(500, "Internal Server Error", CtJson, <<>>)
\* An error status whose body would decode to audio.
RespHttp404 ==
  ErrorResponse(404, "Not Found", CtJson,
                BodyOf(<<DataFragment(<<"Q", "Q", "=", "=">>, TRUE, <<65>>)>>))

PopupResponses == {RespJson, RespBinary, RespNoAudio, RespHttp500, RespHttp404}

\* What a run's calls hold for a fetch that rejected: there is no response.
NetworkFailure == ErrorResponse(0, "", NoHeader, <<>>)

(***************************************************************************)
(* statusEl.textContent: a message and the two numbers it may show.        *)
(***************************************************************************)
Status(msg, a, b) == [msg |-> msg, a |-> a, b |-> b]
StatusError(error) == [msg |-> "Error", a |-> error.status, b |-> 0,
                       error |-> error.message]

StFinished == Status("Finished reading.", 0, 0)
StStopped == Status("Playback stopped.", 0, 0)
StExtracting == Status("Extracting text from page...", 0, 0)
StNoTab == Status("No active tab found.", 0, 0)
StUnable == Status("Unable to retrieve text from this page.", 0, 0)
StNoText == Status("No text found on this page.", 0, 0)
StNoSegments == Status("No audio segments returned.", 0, 0)
StPlaying(i, n) == Status("Playing segment ${i} of ${n}...", i, n)
StSynthesizing(i, n) == Status("Synthesizing segment ${i} of ${n}...", i, n)

(***************************************************************************)
(* The audio element and the object URLs.  An object URL is its number in  *)
(* objectUrls; 0 is the empty src and the absent handler.                  *)
(***************************************************************************)
NoUrl == 0

AudioInit == [src |-> NoUrl, playing |-> FALSE, onended |-> NoUrl]

\* URL.revokeObjectURL(url)
Revoke(urls, url) == [urls EXCEPT ![url].revoked = @ + 1]

RECURSIVE RevokeAll(_, _)
RevokeAll(urls, list) ==
  IF list = <<>> THEN urls ELSE RevokeAll(Revoke(urls, Head(list)), Tail(list))

\* format.toLowerCase() === 'mp3' ? 'audio/mpeg' : `audio/${format}`
MimeOf(format) ==
  IF format \in {"mp3", "MP3", "Mp3", "mP3"}
  THEN [type |-> "audio", subtype |-> "mpeg"]
  ELSE [type |-> "audio", subtype |-> format]

NoRun ==
  [pc |-> "none", text |-> <<>>, settings |-> Settings("", "", "", "", 0),
   segments |-> <<>>, i |-> 0, buffers |-> <<>>, fetches |-> 0,
   resp |-> NoResponse, error |-> NoResult.error, returned |-> FALSE,
   urls |-> <<>>, calls |-> <<>>, requests |-> <<>>, stopped |-> FALSE]

NewRun == [NoRun EXCEPT !.pc = "tabsQuery"]

\* A run that has a callback or an await pending.
UnderWay(run) ==
  run.pc \in {"tabsQuery", "sendMessage", "getSettings", "fetch", "body",
              "storageGet"}

\* A synchronous loop that never ends blocks the popup's only thread.
Hung == \E r \in 1..Len(runs) : runs[r].pc = "hung"

PopupIdle ==
  /\ startBtnDisabled = FALSE
  /\ stopBtnDisabled = TRUE
  /\ statusEl = Status("", 0, 0)
  /\ currentUrls = <<>>
  /\ currentIndex = 0
  /\ audioPlayer = AudioInit
  /\ objectUrls = <<>>
  /\ store = Settings("", "", "", "mp3", DefaultMaxLength)
  /\ runs = <<>>
  /\ playLog = <<>>
  /\ env = [clicks |-> 0, pageTexts |-> {}, responses |-> {}, forms |-> {}]

(***************************************************************************)
(* Specification SpecSplit: one call of the segmenter, its loop taken one  *)
(* iteration at a time.                                                    *)
(***************************************************************************)
TextAlphabet == {"a", "b"}

SplitIdle ==
  /\ sp_text = <<>>
  /\ sp_maxLength = 1
  /\ sp_start = 0
  /\ sp_segments = <<>>
  /\ sp_pc = "idle"

DecIdle ==
  /\ d_resp = NoResponse
  /\ d_frags = <<>>
  /\ d_pc = "idle"
  /\ d_text = <<>>
  /\ d_scan = ScanInit
  /\ d_execs = 0
  /\ d_result = NoResult

InitSplit ==
  /\ DecIdle
  /\ PopupIdle
  /\ sp_text \in SeqsUpTo(TextAlphabet, MaxTextLen)
  /\ sp_maxLength \in (0 - MaxNegLength)..MaxMaxLength
  /\ sp_start = SplitInit.start
  /\ sp_segments = SplitInit.segments
  /\ sp_pc = "loop"

SplitIterate ==
  /\ sp_pc = "loop"
  /\ SplitCond(sp_text, [start |-> sp_start, segments |-> sp_segments])
  /\ Len(sp_segments) < MaxIter
  /\ LET st == SplitBody(sp_text, sp_maxLength,
                         [start |-> sp_start, segments |-> sp_segments])
     IN /\ sp_start' = st.start
        /\ sp_segments' = st.segments
  /\ UNCHANGED <<sp_text, sp_maxLength, sp_pc>>
  /\ UNCHANGED <<d_vars, p_vars>>

SplitReturn ==
  /\ sp_pc = "loop"
  /\ ~SplitCond(sp_text, [start |-> sp_start, segments |-> sp_segments])
  /\ sp_pc' = "returned"
  /\ UNCHANGED <<sp_text, sp_maxLength, sp_start, sp_segments>>
  /\ UNCHANGED <<d_vars, p_vars>>

NextSplit == SplitIterate \/ SplitReturn

SpecSplit == InitSplit /\ [][NextSplit]_vars

(***************************************************************************)
(* Specification SpecDecode: one response taken through                    *)
(* synthesizeSegmentLocal, the scan one regex.exec at a time.              *)
(***************************************************************************)
InitDecode ==
  /\ SplitIdle
  /\ PopupIdle
  /\ \/ /\ d_frags \in SeqsUpTo(Fragments, MaxFrags)
        /\ \E ct \in ContentTypes : d_resp = OkResponse(ct, BodyOf(d_frags))
     \/ /\ d_frags = <<>>
        /\ \E ct \in ContentTypes, body \in RawBodies :
              d_resp = OkResponse(ct, body)
     \/ /\ d_frags \in SeqsUpTo(DataFragments, 1)
        /\ \E ct \in {CtJson, CtMpeg} :
              \/ d_resp = ErrorResponse(500, "Internal Server Error", ct,
                                        BodyOf(d_frags))
              \/ d_resp = ErrorResponse(401, "Unauthorized", ct,
                                        BodyOf(d_frags))
  /\ d_pc = "response"
  /\ d_text = <<>>
  /\ d_scan = ScanInit
  /\ d_execs = 0
  /\ d_result = NoResult

\* if (!response.ok) throw new Error(...)
DecHttpError ==
  /\ d_pc = "response"
  /\ ~d_resp.ok
  /\ d_result' = Threw(MsgHttp, d_resp.status, d_resp.statusText)
  /\ d_pc' = "done"
  /\ UNCHANGED <<d_resp, d_frags, d_text, d_scan, d_execs>>
  /\ UNCHANGED <<sp_vars, p_vars>>

\* const text = await response.text()
DecReadText ==
  /\ d_pc = "response"
  /\ d_resp.ok
  /\ IsTextual(ContentTypeOf(d_resp))
  /\ d_text' = ResponseText(d_resp.body)
  /\ d_scan' = ScanInit
  /\ d_pc' = "scan"
  /\ UNCHANGED <<d_resp, d_frags, d_execs, d_result>>
  /\ UNCHANGED <<sp_vars, p_vars>>

\* const arrayBuffer = await response.arrayBuffer(); return arrayBuffer
DecReadBinary ==
  /\ d_pc = "response"
  /\ d_resp.ok
  /\ ~IsTextual(ContentTypeOf(d_resp))
  /\ d_result' = Returned(d_resp.body)
  /\ d_pc' = "done"
  /\ UNCHANGED <<d_resp, d_frags, d_text, d_scan, d_execs>>
  /\ UNCHANGED <<sp_vars, p_vars>>

\* One iteration of while ((match = regex.exec(text)) !== null)
DecScanMatch ==
  /\ d_pc = "scan"
  /\ LET m == RegexExec(d_text, d_scan.lastIndex)
     IN /\ m.found
        /\ d_scan' = ScanBody(d_scan, m)
  /\ d_execs' = d_execs + 1
  /\ UNCHANGED <<d_resp, d_frags, d_pc, d_text, d_result>>
  /\ UNCHANGED <<sp_vars, p_vars>>

\* regex.exec returns null: the loop ends, the chunks are merged or the
\* function throws.
DecScanEnd ==
  /\ d_pc = "scan"
  /\ ~RegexExec(d_text, d_scan.lastIndex).found
  /\ d_execs' = d_execs + 1
  /\ d_result' = ScanResult(d_scan)
  /\ d_pc' = "done"
  /\ UNCHANGED <<d_resp, d_frags, d_text, d_scan>>
  /\ UNCHANGED <<sp_vars, p_vars>>

NextDecode ==
  \/ DecHttpError
  \/ DecReadText
  \/ DecReadBinary
  \/ DecScanMatch
  \/ DecScanEnd

SpecDecode == InitDecode /\ [][NextDecode]_vars

(***************************************************************************)
(* C1: for every text and every positive integer maxLength the segmenter   *)
(* returns an ordered sequence of non-empty segments, each of length at    *)
(* most maxLength, whose concatenation in order is the text; the empty     *)
(* text gives the empty sequence.  The returned value agrees with the      *)
(* function the orchestrator calls.                                        *)
(***************************************************************************)
C1_SplitLossless ==
  (sp_pc = "returned" /\ sp_maxLength > 0) =>
     /\ Concat(sp_segments) = sp_text
     /\ \A i \in 1..Len(sp_segments) :
           /\ Len(sp_segments[i]) > 0
           /\ Len(sp_segments[i]) <= sp_maxLength
     /\ (sp_text = <<>> => sp_segments = <<>>)
     /\ splitTextPlain(sp_text, sp_maxLength) =
           [returned |-> TRUE, segments |-> sp_segments]

C1_Witness ==
  /\ sp_pc = "returned"
  /\ sp_maxLength = 2
  /\ Len(sp_text) = 3
  /\ Len(sp_segments) = 2
  /\ Len(sp_segments[2]) = 1

(***************************************************************************)
(* C2: for every maxLength <= 0 and non-empty text the segmenter signals a *)
(* precondition violation: it neither runs its loop nor returns segments.  *)
(***************************************************************************)
C2_NonPositiveRejected ==
  (sp_maxLength <= 0 /\ sp_text # <<>>) =>
     (sp_segments = <<>> /\ sp_pc # "returned")

(***************************************************************************)
(* The popup: playNext, stopPlayback and the audio element's events.       *)
(***************************************************************************)
\* Mutant: the segment that just ended is started again.
PlayNextUrl_Previous(urls, index) == urls[Max(index, 1)]

\* const url = currentUrls[currentIndex]
PlayNextUrl(urls, index) == urls[index + 1]

\* playNext(), with the audio element and the log as its caller leaves them.
PlayNext(urls, index, audio, log) ==
  IF index >= Len(urls)
  THEN /\ statusEl' = StFinished
       /\ startBtnDisabled' = FALSE
       /\ stopBtnDisabled' = TRUE
       /\ audioPlayer' = audio
       /\ playLog' = log
  ELSE LET url == PlayNextUrl(urls, index)
       IN /\ audioPlayer' = [src |-> url, playing |-> TRUE, onended |-> url]
          /\ statusEl' = StPlaying(index + 1, Len(urls))
          /\ playLog' = Append(log, [ev |-> "play", url |-> url])
          /\ UNCHANGED <<startBtnDisabled, stopBtnDisabled>>

\* The media ends and audioPlayer.onended runs: it revokes the URL it closed
\* over, advances the cursor and calls playNext.
AudioEnded ==
  /\ ~Hung
  /\ audioPlayer.playing
  /\ audioPlayer.onended # NoUrl
  /\ objectUrls' = Revoke(objectUrls, audioPlayer.onended)
  /\ currentIndex' = currentIndex + 1
  /\ PlayNext(currentUrls, currentIndex + 1,
              [audioPlayer EXCEPT !.playing = FALSE],
              Append(playLog, [ev |-> "ended", url |-> audioPlayer.src]))
  /\ UNCHANGED <<currentUrls, store, runs, env>>
  /\ UNCHANGED <<sp_vars, d_vars>>

\* audioPlayer.play() rejects: the rejection is logged, nothing plays and no
\* ended event follows.
PlayRejected ==
  /\ ~Hung
  /\ audioPlayer.playing
  /\ audioPlayer' = [audioPlayer EXCEPT !.playing = FALSE]
  /\ UNCHANGED <<startBtnDisabled, stopBtnDisabled, statusEl, currentUrls,
                 currentIndex, objectUrls, store, runs, playLog, env>>
  /\ UNCHANGED <<sp_vars, d_vars>>

\* Mutant: the segment being played is left out of the clean-up.
StopRange_AfterCurrent(urls, index) ==
  IF index + 1 >= Len(urls) THEN <<>> ELSE SubSeq(urls, index + 2, Len(urls))

\* for (let i = currentIndex; i < currentUrls.length; i++)
StopRange(urls, index) ==
  IF index >= Len(urls) THEN <<>> ELSE SubSeq(urls, index + 1, Len(urls))

\* A click on Stop: stopPlayback().  A disabled button takes no click.  No
\* run is cancelled; the runs under way are marked, to tell what becomes of
\* them.
StopClick ==
  /\ ~Hung
  /\ ~stopBtnDisabled
  /\ audioPlayer' = [audioPlayer EXCEPT !.src = NoUrl, !.playing = FALSE]
  /\ objectUrls' = RevokeAll(objectUrls, StopRange(currentUrls, currentIndex))
  /\ currentUrls' = <<>>
  /\ currentIndex' = 0
  /\ startBtnDisabled' = FALSE
  /\ stopBtnDisabled' = TRUE
  /\ statusEl' = StStopped
  /\ runs' = [r \in 1..Len(runs) |->
                IF UnderWay(runs[r]) THEN [runs[r] EXCEPT !.stopped = TRUE]
                ELSE runs[r]]
  /\ UNCHANGED <<store, playLog, env>>
  /\ UNCHANGED <<sp_vars, d_vars>>

(***************************************************************************)
(* The Start click handler and synthesizeAll, one action per callback or   *)
(* await continuation.                                                     *)
(***************************************************************************)
\* Mutant: the Stop button is left enabled.
UiReset_StopEnabled(status) ==
  /\ statusEl' = status
  /\ startBtnDisabled' = FALSE
  /\ stopBtnDisabled' = FALSE

\* statusEl.textContent = ...; startBtn.disabled = false;
\* stopBtn.disabled = true
UiReset(status) ==
  /\ statusEl' = status
  /\ startBtnDisabled' = FALSE
  /\ stopBtnDisabled' = TRUE

\* The handler is over: its locals are gone.  What is kept of the run is
\* what it did: where it ended, its settings and segments, the index of the
\* segment it was at, its fetches, what it sent in each (requests) and what
\* the endpoint answered to each (calls), its error, whether synthesizeAll
\* returned, the object URLs made from its buffers, and whether Stop was
\* clicked while it was under way (stopped).
Ended(run, pc) ==
  [run EXCEPT !.pc = pc, !.text = <<>>, !.buffers = <<>>,
              !.resp = NoResponse]

RunEnds(r, pc) == runs' = [runs EXCEPT ![r] = Ended(@, pc)]

\* catch (err): the status shows the message, the buttons are reset.
\* `run` is the run as the throwing code leaves it.
Catch(r, run, error) ==
  /\ UiReset(StatusError(error))
  /\ runs' = [runs EXCEPT ![r] = [Ended(run, "failed") EXCEPT
                                    !.error = error]]
  /\ UNCHANGED <<currentUrls, currentIndex, audioPlayer, objectUrls, store,
                 playLog, env>>

StartClick ==
  /\ ~Hung
  /\ ~startBtnDisabled
  /\ Len(runs) < env.clicks
  /\ startBtnDisabled' = TRUE
  /\ stopBtnDisabled' = FALSE
  /\ statusEl' = StExtracting
  /\ runs' = Append(runs, NewRun)
  /\ UNCHANGED <<currentUrls, currentIndex, audioPlayer, objectUrls, store,
                 playLog, env>>
  /\ UNCHANGED <<sp_vars, d_vars>>

\* chrome.tabs.query calls back with no tab.
TabsQueryNoTabOf(r) ==
  /\ ~Hung
  /\ runs[r].pc = "tabsQuery"
  /\ UiReset(StNoTab)
  /\ RunEnds(r, "noTab")
  /\ UNCHANGED <<currentUrls, currentIndex, audioPlayer, objectUrls, store,
                 playLog, env>>
  /\ UNCHANGED <<sp_vars, d_vars>>

\* chrome.tabs.query calls back with a tab: the text is asked for.
TabsQueryTabOf(r) ==
  /\ ~Hung
  /\ runs[r].pc = "tabsQuery"
  /\ runs' = [runs EXCEPT ![r].pc = "sendMessage"]
  /\ UNCHANGED <<startBtnDisabled, stopBtnDisabled, statusEl, currentUrls,
                 currentIndex, audioPlayer, objectUrls, store, playLog, env>>
  /\ UNCHANGED <<sp_vars, d_vars>>

\* chrome.tabs.sendMessage calls back with chrome.runtime.lastError set.
SendMessageLastErrorOf(r) ==
  /\ ~Hung
  /\ runs[r].pc = "sendMessage"
  /\ UiReset(StUnable)
  /\ RunEnds(r, "lastError")
  /\ UNCHANGED <<currentUrls, currentIndex, audioPlayer, objectUrls, store,
                 playLog, env>>
  /\ UNCHANGED <<sp_vars, d_vars>>

\* chrome.tabs.sendMessage calls back with the page's text; with a text that
\* is not blank synthesizeAll starts and awaits the settings.
SendMessageTextOf(r, pageText) ==
  /\ ~Hung
  /\ runs[r].pc = "sendMessage"
  /\ LET text == Trim(pageText)
     IN IF text = <<>>
        THEN /\ UiReset(StNoText)
             /\ RunEnds(r, "noText")
        ELSE /\ runs' = [runs EXCEPT ![r].pc = "getSettings",
                                     ![r].text = text]
             /\ UNCHANGED <<startBtnDisabled, stopBtnDisabled, statusEl>>
  /\ UNCHANGED <<currentUrls, currentIndex, audioPlayer, objectUrls, store,
                 playLog, env>>
  /\ UNCHANGED <<sp_vars, d_vars>>

\* Mutant: the segments are requested from the last to the first.
RequestOf_Reversed(segments, i, settings) ==
  [text |-> segments[Len(segments) - i], format |-> settings.format]

\* const segment = segments[i], and what synthesizeSegmentLocal sends of it
\* and of the settings in the request body.
RequestOf(segments, i, settings) ==
  [text |-> segments[i + 1], format |-> settings.format]

\* getSettingsFromStorage resolves: the settings are checked, the text is
\* split and the first segment is requested.
GetSettingsResolvesOf(r) ==
  /\ ~Hung
  /\ runs[r].pc = "getSettings"
  /\ LET settings == getSettingsFromStorage
         split == splitTextPlain(runs[r].text, MaxLengthOf(settings))
     IN IF ~SettingsComplete(settings)
        THEN Catch(r, [runs[r] EXCEPT !.settings = settings],
                   Threw(MsgPrecondition, 0, "").error)
        ELSE /\ UNCHANGED <<currentUrls, currentIndex, audioPlayer,
                            objectUrls, store, playLog, env>>
             /\ IF ~split.returned
                THEN /\ runs' = [runs EXCEPT ![r].pc = "hung",
                                             ![r].settings = settings]
                     /\ UNCHANGED <<startBtnDisabled, stopBtnDisabled,
                                    statusEl>>
                ELSE IF split.segments = <<>>
                THEN /\ UiReset(StNoSegments)
                     /\ runs' = [runs EXCEPT
                                   ![r] = [Ended(@, "noSegments") EXCEPT
                                             !.settings = settings,
                                             !.returned = TRUE]]
                ELSE /\ statusEl' = StSynthesizing(1, Len(split.segments))
                     /\ runs' = [runs EXCEPT ![r].pc = "fetch",
                                             ![r].settings = settings,
                                             ![r].segments = split.segments,
                                             ![r].fetches = 1,
                                             ![r].requests =
                                                <<RequestOf(split.segments, 0,
                                                            settings)>>]
                     /\ UNCHANGED <<startBtnDisabled, stopBtnDisabled>>
  /\ UNCHANGED <<sp_vars, d_vars>>

\* Mutant: the status of the response is not looked at.
ResponseOk_Always(resp) == TRUE

\* response.ok
ResponseOk(resp) == resp.ok

\* await fetch(...) resolves with a response: a non-success status is
\* thrown, otherwise the body is awaited.
FetchResolvesOf(r, resp) ==
  /\ ~Hung
  /\ runs[r].pc = "fetch"
  /\ IF ~ResponseOk(resp)
     THEN Catch(r, [runs[r] EXCEPT !.calls = Append(@, resp)],
                Threw(MsgHttp, resp.status, resp.statusText).error)
     ELSE /\ runs' = [runs EXCEPT ![r].pc = "body", ![r].resp = resp,
                                  ![r].calls = Append(@, resp)]
          /\ UNCHANGED <<startBtnDisabled, stopBtnDisabled, statusEl,
                         currentUrls, currentIndex, audioPlayer, objectUrls,
                         store, playLog, env>>
  /\ UNCHANGED <<sp_vars, d_vars>>

\* await fetch(...) rejects: the network failed.
FetchRejectsOf(r) ==
  /\ ~Hung
  /\ runs[r].pc = "fetch"
  /\ Catch(r, [runs[r] EXCEPT !.calls = Append(@, NetworkFailure)],
           Threw(MsgFetchFailed, 0, "").error)
  /\ UNCHANGED <<sp_vars, d_vars>>

\* Mutant: the loop goes on to the next segment after a failure.
SegmentFailed_Ignored(result) == FALSE

\* A throw of synthesizeSegmentLocal leaves the loop of synthesizeAll.
SegmentFailed(result) == ~result.ok

\* await response.text() or response.arrayBuffer() resolves: the segment's
\* buffer is pushed; the next segment is requested or synthesizeAll returns
\* and the handler asks the store for the format.
BodyResolvesOf(r) ==
  /\ ~Hung
  /\ runs[r].pc = "body"
  /\ LET result == DecodeResponse(runs[r].resp)
         buffers == Append(runs[r].buffers, result.buffer)
         i == runs[r].i + 1
     IN IF SegmentFailed(result)
        THEN Catch(r, runs[r], result.error)
        ELSE /\ UNCHANGED <<startBtnDisabled, stopBtnDisabled, currentUrls,
                            currentIndex, audioPlayer, objectUrls, store,
                            playLog, env>>
             /\ IF i < Len(runs[r].segments)
                THEN /\ statusEl' = StSynthesizing(i + 1, Len(runs[r].segments))
                     /\ runs' = [runs EXCEPT ![r].pc = "fetch",
                                             ![r].resp = NoResponse,
                                             ![r].buffers = buffers,
                                             ![r].i = i,
                                             ![r].fetches = @ + 1,
                                             ![r].requests =
                                                Append(@, RequestOf(
                                                   runs[r].segments, i,
                                                   runs[r].settings))]
                ELSE /\ UNCHANGED statusEl
                     /\ runs' = [runs EXCEPT ![r].pc = "storageGet",
                                             ![r].resp = NoResponse,
                                             ![r].buffers = buffers,
                                             ![r].i = i,
                                             ![r].returned = TRUE]
  /\ UNCHANGED <<sp_vars, d_vars>>

\* chrome.storage.local.get({format}) calls back: an object URL is created
\* for every buffer, the queue is replaced and playNext is called.
StorageGetCallbackOf(r) ==
  /\ ~Hung
  /\ runs[r].pc = "storageGet"
  /\ LET n == Len(runs[r].buffers)
         format == IF store.format = "" THEN "mp3" ELSE store.format
         urls == [k \in 1..n |-> Len(objectUrls) + k]
     IN /\ objectUrls' = objectUrls \o
                         [k \in 1..n |-> [run |-> r, index |-> k - 1,
                                          mime |-> MimeOf(format),
                                          revoked |-> 0]]
        /\ currentUrls' = urls
        /\ currentIndex' = 0
        /\ runs' = [runs EXCEPT ![r] = [Ended(@, "played") EXCEPT
                                           !.urls = urls]]
        /\ PlayNext(urls, 0, audioPlayer, playLog)
  /\ UNCHANGED <<store, env>>
  /\ UNCHANGED <<sp_vars, d_vars>>

\* The options page, open in a tab of its own: the form is submitted and
\* chrome.storage.local.set writes the record.
OptionsSubmitOf(form) ==
  /\ store' = OptionsData(form)
  /\ UNCHANGED <<startBtnDisabled, stopBtnDisabled, statusEl, currentUrls,
                 currentIndex, audioPlayer, objectUrls, runs, playLog, env>>
  /\ UNCHANGED <<sp_vars, d_vars>>

PopupInit(stores, clicks, pageTexts, responses, forms) ==
  /\ SplitIdle
  /\ DecIdle
  /\ startBtnDisabled = FALSE
  /\ stopBtnDisabled = TRUE
  /\ statusEl = Status("", 0, 0)
  /\ currentUrls = <<>>
  /\ currentIndex = 0
  /\ audioPlayer = AudioInit
  /\ objectUrls = <<>>
  /\ store \in stores
  /\ runs = <<>>
  /\ playLog = <<>>
  /\ env = [clicks |-> clicks, pageTexts |-> pageTexts,
            responses |-> responses, forms |-> forms]

\* Each callback or continuation, for whichever run it belongs to.
TabsQueryNoTab == \E r \in 1..Len(runs) : TabsQueryNoTabOf(r)
TabsQueryTab == \E r \in 1..Len(runs) : TabsQueryTabOf(r)
SendMessageLastError == \E r \in 1..Len(runs) : SendMessageLastErrorOf(r)
SendMessageText ==
  \E r \in 1..Len(runs), pageText \in env.pageTexts :
     SendMessageTextOf(r, pageText)
GetSettingsResolves == \E r \in 1..Len(runs) : GetSettingsResolvesOf(r)
FetchResolves ==
  \E r \in 1..Len(runs), resp \in env.responses : FetchResolvesOf(r, resp)
FetchRejects == \E r \in 1..Len(runs) : FetchRejectsOf(r)
BodyResolves == \E r \in 1..Len(runs) : BodyResolvesOf(r)
StorageGetCallback == \E r \in 1..Len(runs) : StorageGetCallbackOf(r)
OptionsSubmit == \E form \in env.forms : OptionsSubmitOf(form)

Next ==
  \/ StartClick
  \/ StopClick
  \/ AudioEnded
  \/ PlayRejected
  \/ TabsQueryNoTab
  \/ TabsQueryTab
  \/ SendMessageLastError
  \/ SendMessageText
  \/ GetSettingsResolves
  \/ FetchResolves
  \/ FetchRejects
  \/ BodyResolves
  \/ StorageGetCallback
  \/ OptionsSubmit

(***************************************************************************)
(* Specification Spec: the popup through up to MaxRuns Start clicks, with  *)
(* any interleaving of clicks, callbacks, responses and audio events.      *)
(***************************************************************************)
Init ==
  PopupInit(PlaybackStores, MaxRuns, {<<>>, <<"a", " ">>, <<"a", "b", "c">>},
            {RespJson, RespHttp500}, {FormWav})

Spec == Init /\ [][Next]_vars

(***************************************************************************)
(* Specification SpecLive: Spec with an audio element that does not stall: *)
(* media that is playing comes to its end and the ended event is handled.  *)
(***************************************************************************)
SpecLive == Init /\ [][Next]_vars /\ WF_vars(AudioEnded)

(***************************************************************************)
(* Specification SpecSynth: the popup through one Start click, with every  *)
(* settings store, page text and response of the model.                    *)
(***************************************************************************)
InitSynth ==
  PopupInit(StoreConfigs, SynthClicks, PageTexts, PopupResponses, SynthForms)

SpecSynth == InitSynth /\ [][Next]_vars

(***************************************************************************)
(* What a body built from fragments stands for: the byte chunks of its     *)
(* data fields whose value is base64, in order.                            *)
(***************************************************************************)
IsDataField(f) == f.data
IsAudioField(f) == f.data /\ f.valid

ExpectedChunks(frags) ==
  LET audio == SelectSeq(frags, IsAudioField)
  IN [i \in 1..Len(audio) |-> audio[i].bytes]

DecodedTextual ==
  /\ d_pc = "done"
  /\ d_resp.ok
  /\ d_resp.contentType \in TextualTypes

(***************************************************************************)
(* C8: for a response whose content type contains application/json or text *)
(* in any letter case, the decoder matches every quoted data field of the  *)
(* body, also of objects that follow each other with no separator, and     *)
(* returns the concatenation, in order, of the base64 decodings of the     *)
(* values that are non-empty, not null and valid base64; the others are    *)
(* skipped without aborting.                                               *)
(***************************************************************************)
C8_DecodeConcatenates ==
  (DecodedTextual /\ d_resp.body = BodyOf(d_frags)) =>
     /\ d_execs = Len(SelectSeq(d_frags, IsDataField)) + 1
     /\ d_scan.audioChunks = ExpectedChunks(d_frags)
     /\ ExpectedChunks(d_frags) # <<>> =>
           d_result = Returned(Concat(ExpectedChunks(d_frags)))
     /\ d_result = DecodeResponse(d_resp)

C8_Witness ==
  /\ DecodedTextual
  /\ d_resp.contentType = CtJsonCharset
  /\ Len(d_frags) = 2
  /\ d_frags[1].value = <<"Q", "U", "I", "=">>
  /\ d_frags[2].value = <<"/", "+", "8", "=">>
  /\ d_result = Returned(<<65, 66, 255, 239>>)

(***************************************************************************)
(* C9: for a JSON or text response the decoder throws the no-audio error   *)
(* exactly when no chunk was decoded; a body whose only data fields are    *)
(* null, empty or not base64 (or that has none) always throws and never    *)
(* gives an empty buffer.                                                  *)
(***************************************************************************)
C9_NoAudioIffNoChunk ==
  DecodedTextual =>
     /\ d_result = Threw(MsgNoAudio, 0, "") <=> Len(d_scan.audioChunks) = 0
     /\ d_result.ok <=> Len(d_scan.audioChunks) > 0
     /\ d_resp.body = BodyOf(d_frags) =>
           (d_result = Threw(MsgNoAudio, 0, "")
              <=> ExpectedChunks(d_frags) = <<>>)
     /\ d_resp.body \in RawBodies => d_result = Threw(MsgNoAudio, 0, "")

C9_Witness ==
  /\ DecodedTextual
  /\ Len(d_frags) = 2
  /\ d_frags[1].value = StrNull
  /\ d_frags[2].value = <<"Q", "!", "=", "=">>
  /\ d_frags[1].data /\ d_frags[2].data
  /\ d_execs = 3
  /\ d_result = Threw(MsgNoAudio, 0, "")

(***************************************************************************)
(* C10: for a successful response whose content type contains neither      *)
(* application/json nor text, an absent header included, the decoder       *)
(* returns the body bytes unchanged and never runs the data-field scan.    *)
(***************************************************************************)
C10_BinaryUnchanged ==
  (d_pc = "done" /\ d_resp.ok /\ d_resp.contentType \in BinaryTypes) =>
     /\ d_result = Returned(d_resp.body)
     /\ d_execs = 0
     /\ d_text = <<>>
     /\ d_scan = ScanInit

C10_Witness ==
  /\ d_pc = "done"
  /\ d_resp.ok
  /\ d_resp.contentType = NoHeader
  /\ Len(d_frags) = 1
  /\ IsAudioField(d_frags[1])
  /\ d_result = Returned(BodyOf(d_frags))

(***************************************************************************)
(* C3: if apiKey, resourceId or speaker of the settings is empty,          *)
(* synthesizeAll fails with the precondition error and the run makes no    *)
(* fetch, whatever the text.                                               *)
(***************************************************************************)
SettingsRead(run) ==
  run.pc \in {"failed", "fetch", "body", "storageGet", "played", "hung",
              "noSegments"}
     /\ ~(run.pc = "failed" /\ run.settings = NoRun.settings)

C3_IncompleteSettingsNoFetch ==
  \A r \in 1..Len(runs) :
     ( /\ SettingsRead(runs[r])
       /\ \/ runs[r].settings.apiKey = ""
          \/ runs[r].settings.resourceId = ""
          \/ runs[r].settings.speaker = "" ) =>
        /\ runs[r].pc = "failed"
        /\ runs[r].error.message = MsgPrecondition
        /\ runs[r].fetches = 0
        /\ runs[r].calls = <<>>
        /\ ~runs[r].returned
        /\ runs[r].urls = <<>>

C3_Witness ==
  \E r \in 1..Len(runs) :
     /\ runs[r].pc = "failed"
     /\ runs[r].settings.speaker = ""
     /\ runs[r].settings.apiKey = "key"
     /\ runs[r].settings.resourceId = "res"
     /\ runs[r].fetches = 0
     /\ statusEl = StatusError(Threw(MsgPrecondition, 0, "").error)

(***************************************************************************)
(* C4: if the synthesis call for segment k (from 1) is the first to fail   *)
(* in a run over n segments, synthesizeAll fails after exactly k calls:    *)
(* segments k+1..n are never requested, the error is the one of segment k, *)
(* and no list of buffers is returned (no object URL is made of the run).  *)
(* A response whose body is still being read has not failed yet.           *)
(***************************************************************************)
CallFails(resp) == ~resp.ok \/ resp = RespNoAudio

ErrorOfCall(resp) ==
  IF resp = NetworkFailure
  THEN [message |-> MsgFetchFailed, status |-> 0, statusText |-> ""]
  ELSE IF ~resp.ok
  THEN [message |-> MsgHttp, status |-> resp.status,
        statusText |-> resp.statusText]
  ELSE [message |-> MsgNoAudio, status |-> 0, statusText |-> ""]

C4_FirstFailureAborts ==
  \A r \in 1..Len(runs) :
     LET run == runs[r]
     IN /\ run.fetches <= Len(run.segments)
        /\ Len(run.calls) <= run.fetches
        /\ \A k \in 1..Len(run.calls) :
              CallFails(run.calls[k]) =>
                 /\ k = Len(run.calls)
                 /\ run.fetches = k
                 /\ ~run.returned
                 /\ run.urls = <<>>
                 /\ \A u \in 1..Len(objectUrls) : objectUrls[u].run # r
                 /\ \/ /\ run.pc = "failed"
                       /\ run.error = ErrorOfCall(run.calls[k])
                    \/ /\ run.pc = "body"
                       /\ run.calls[k] = RespNoAudio

C4_Witness ==
  \E r \in 1..Len(runs) :
     /\ runs[r].pc = "failed"
     /\ Len(runs[r].segments) = 3
     /\ runs[r].fetches = 2
     /\ runs[r].calls = <<RespJson, RespNoAudio>>
     /\ runs[r].error.message = MsgNoAudio

(***************************************************************************)
(* C5: every object URL created for a playback queue is revoked at most    *)
(* once, and whenever the controller is Finished or Cancelled every URL    *)
(* ever created has been revoked exactly once, for any interleaving of     *)
(* Start clicks, Stop clicks, ended events and synthesis completions.      *)
(***************************************************************************)
ControllerFinished == statusEl = StFinished
ControllerCancelled == statusEl = StStopped

C5_ReleasedExactlyOnce ==
  /\ \A u \in 1..Len(objectUrls) : objectUrls[u].revoked <= 1
  /\ (ControllerFinished \/ ControllerCancelled) =>
        \A u \in 1..Len(objectUrls) : objectUrls[u].revoked = 1

(***************************************************************************)
(* C6: the audio element is given the URLs of a queue in index order:      *)
(* segment i+1 of a queue starts only when segment i of it has just ended, *)
(* the segment that follows an ended one is started in the same step, and  *)
(* no URL is played twice.                                                 *)
(***************************************************************************)
IsPlay(p) == playLog[p].ev = "play"
IsEnded(p) == playLog[p].ev = "ended"
OwnerOf(p) == objectUrls[playLog[p].url]

CancelStep == statusEl' = StStopped /\ statusEl # StStopped

PlayingSegment ==
  /\ currentIndex < Len(currentUrls)
  /\ audioPlayer.src = currentUrls[currentIndex + 1]

CancelReleasesRest ==
  (CancelStep /\ PlayingSegment) =>
     /\ \A j \in 1..Len(currentUrls) :
           IF j - 1 >= currentIndex
           THEN /\ objectUrls[currentUrls[j]].revoked = 0
                /\ objectUrls'[currentUrls[j]].revoked = 1
           ELSE /\ objectUrls[currentUrls[j]].revoked = 1
                /\ objectUrls'[currentUrls[j]].revoked = 1
     /\ \A u \in 1..Len(objectUrls) :
           (\A j \in 1..Len(currentUrls) : currentUrls[j] # u) =>
              objectUrls'[u] = objectUrls[u]
     /\ audioPlayer'.src = NoUrl
     /\ ~audioPlayer'.playing
     /\ currentUrls' = <<>>
     /\ playLog' = playLog

NoPlayOfRevoked ==
  (Len(playLog') > Len(playLog) /\ playLog'[Len(playLog')].ev = "play") =>
     LET u == playLog'[Len(playLog')].url
     IN /\ objectUrls'[u].revoked = 0
        /\ audioPlayer'.src = u

C7_CancelReleasesRest == [][CancelReleasesRest /\ NoPlayOfRevoked]_vars

C7_Witness ==
  /\ ControllerCancelled
  /\ Len(playLog) = 3
  /\ IsPlay(3)
  /\ OwnerOf(3).index = 1
  /\ Len(objectUrls) = 3
  /\ \A u \in 1..3 : objectUrls[u].revoked = 1
  /\ audioPlayer.src = NoUrl
  /\ currentUrls = <<>>

(***************************************************************************)
(* C11: whenever the controller is Finished (the last segment ended) or    *)
(* Cancelled (stopPlayback), the queue currentUrls is empty and the cursor *)
(* currentIndex is 0, as in the idle state before the first Start.         *)
(***************************************************************************)
C11_TerminalIsIdle ==
  (ControllerFinished \/ ControllerCancelled) =>
     (currentUrls = <<>> /\ currentIndex = 0)

(***************************************************************************)
(* C12: within one run the synthesis requests are issued in segment order  *)
(* (request k carries segment k) and at most one is in flight: request k+1 *)
(* is issued only when the response to request k has been received and    *)
(* decoded, and the buffers are in that order (buffer k is the audio the   *)
(* endpoint answered to segment k).                                        *)
(***************************************************************************)
\* The audio a successful response of the model carries.
AudioOf(resp) == IF resp = RespJson THEN <<65, 66, 65>> ELSE resp.body

InFlight(run) == Len(run.requests) - Len(run.calls)

C12_OneRequestAtATimeInOrder ==
  \A r \in 1..Len(runs) :
     LET run == runs[r]
     IN /\ Len(run.requests) = run.fetches
        /\ \A k \in 1..Len(run.requests) :
              run.requests[k].text = run.segments[k]
        /\ InFlight(run) \in {0, 1}
        /\ (InFlight(run) = 1) <=> (run.pc = "fetch")
        /\ run.pc = "fetch" => Len(run.buffers) = Len(run.calls)
        /\ run.pc = "body" => Len(run.buffers) = Len(run.calls) - 1
        /\ run.pc = "storageGet" =>
              /\ Len(run.buffers) = Len(run.segments)
              /\ Len(run.calls) = Len(run.segments)
        /\ \A k \in 1..Len(run.buffers) :
              run.buffers[k] = AudioOf(run.calls[k])

C12_Witness ==
  \E r \in 1..Len(runs) :
     /\ runs[r].pc = "storageGet"
     /\ runs[r].segments = << <<"a">>, <<"b">>, <<"c">> >>
     /\ runs[r].calls = <<RespJson, RespBinary, RespJson>>
     /\ runs[r].buffers = << <<65, 66, 65>>, <<255, 251, 0, 65>>,
                             <<65, 66, 65>> >>

(***************************************************************************)
(* C13: the progress notification (i, total) of synthesizeAll, the status  *)
(* text of segment i of total, is shown only when the synthesis of segment *)
(* i has succeeded and its buffer is in the result; a segment whose        *)
(* synthesis fails has no progress notification.                           *)
(***************************************************************************)
ProgressShown == statusEl.msg = StSynthesizing(0, 0).msg

C13_ProgressAfterSuccess ==
  ProgressShown =>
     \E r \in 1..Len(runs) :
        /\ Len(runs[r].segments) = statusEl.b
        /\ Len(runs[r].buffers) >= statusEl.a

(***************************************************************************)
(* C14: when the endpoint answers a segment's request with a non-success   *)
(* HTTP status, the run fails with an error that carries that status code  *)
(* and status text, the body of that response is never read or decoded,    *)
(* and the request is not issued again: it is the run's last request.      *)
(***************************************************************************)
IsHttpError(resp) == ~resp.ok /\ resp # NetworkFailure

C14_HttpErrorNoDecodeNoRetry ==
  \A r \in 1..Len(runs) :
     LET run == runs[r]
     IN /\ ~IsHttpError(run.resp)
        /\ \A k \in 1..Len(run.calls) :
              IsHttpError(run.calls[k]) =>
                 /\ k = Len(run.calls)
                 /\ Len(run.requests) = k
                 /\ run.fetches = k
                 /\ run.pc = "failed"
                 /\ run.error.message = MsgHttp
                 /\ run.error.status = run.calls[k].status
                 /\ run.error.statusText = run.calls[k].statusText
                 /\ run.urls = <<>>

C14_Witness ==
  \E r \in 1..Len(runs) :
     /\ runs[r].pc = "failed"
     /\ runs[r].calls = <<RespJson, RespHttp404>>
     /\ Len(runs[r].segments) = 3
     /\ runs[r].error.status = 404
     /\ runs[r].error.statusText = "Not Found"
     /\ statusEl = StatusError(runs[r].error)

(***************************************************************************)
(* C15: if Stop is clicked (stopPlayback) while a synthesis run is under   *)
(* way, the results of that run are discarded when they arrive: no object  *)
(* URL is created from its buffers and nothing of it is ever played.       *)
(***************************************************************************)
C15_StoppedRunDiscarded ==
  \A r \in 1..Len(runs) :
     runs[r].stopped =>
        /\ runs[r].urls = <<>>
        /\ \A u \in 1..Len(objectUrls) : objectUrls[u].run # r
        /\ \A p \in 1..Len(playLog) : OwnerOf(p).run # r

(***************************************************************************)
(* C16: every settings value a run uses comes from the one snapshot of the *)
(* store taken at the start of the run: the format that selects the MIME   *)
(* type of its object URLs (audio/mpeg for mp3, else audio/<format>) is    *)
(* the format sent in its synthesis requests, also when the options page   *)
(* writes the store while the run is under way.                            *)
(***************************************************************************)
C16_OneSettingsSnapshot ==
  /\ \A r \in 1..Len(runs) :
        \A k \in 1..Len(runs[r].requests) :
           runs[r].requests[k].format = runs[r].settings.format
  /\ \A u \in 1..Len(objectUrls) :
        LET run == runs[objectUrls[u].run]
        IN \A k \in 1..Len(run.requests) :
              objectUrls[u].mime = MimeOf(run.requests[k].format)

(***************************************************************************)
(* C17: when a synthesis run fails (precondition, remote or decode error   *)
(* on any segment), nothing is made or played of it: the step in which it  *)
(* fails leaves the queue, the cursor, the object URLs and the audio       *)
(* element as they were, shows the error message and sets Start enabled    *)
(* and Stop disabled; and a failed run never owns an object URL or a play. *)
(***************************************************************************)
FailStep(r) == runs[r].pc # "failed" /\ runs'[r].pc = "failed"

FailureLeavesPlaybackAlone ==
  \A r \in 1..Len(runs) :
     FailStep(r) =>
        /\ currentUrls' = currentUrls
        /\ currentIndex' = currentIndex
        /\ objectUrls' = objectUrls
        /\ audioPlayer' = audioPlayer
        /\ playLog' = playLog
        /\ statusEl' = StatusError(runs'[r].error)
        /\ runs'[r].error.message \in {MsgPrecondition, MsgHttp, MsgNoAudio,
                                        MsgFetchFailed}
        /\ startBtnDisabled' = FALSE
        /\ stopBtnDisabled' = TRUE

FailedRunOwnsNothing ==
  \A r \in 1..Len(runs') :
     runs'[r].pc = "failed" =>
        /\ runs'[r].urls = <<>>
        /\ ~runs'[r].returned
        /\ \A u \in 1..Len(objectUrls') : objectUrls'[u].run # r

C18_PositiveMaxLengthPassed ==
  \A r \in 1..Len(runs) :
     (SettingsRead(runs[r]) /\ SettingsComplete(runs[r].settings)) =>
        /\ MaxLengthOf(runs[r].settings) > 0
        /\ runs[r].settings.maxLength <= 0 =>
              MaxLengthOf(runs[r].settings) = DefaultMaxLength
        /\ runs[r].pc # "hung"

(***************************************************************************)
(* C19: once a queue of n >= 1 buffers has started to play, and as long as *)
(* the audio element signals the end of each segment it is given, the      *)
(* controller eventually is Finished or Cancelled, and whenever it is, all *)
(* the object URLs made for the queues have been released, none leaked.    *)
(***************************************************************************)
QueueStarted == audioPlayer.playing

\* play() was rejected: the element holds a URL it neither plays nor ended.
SinkSilent ==
  /\ audioPlayer.src # NoUrl
  /\ ~audioPlayer.playing
  /\ objectUrls[audioPlayer.src].revoked = 0

QueueEnds == QueueStarted ~> (ControllerFinished \/ ControllerCancelled
                                \/ SinkSilent)

NoneLeaked ==
  (ControllerFinished \/ ControllerCancelled) =>
     \A u \in 1..Len(objectUrls) : objectUrls[u].revoked >= 1

C19_QueueEndsAllReleased == QueueEnds /\ []NoneLeaked

(***************************************************************************)
(* C20: at most one run is active in the popup at any time: the Start      *)
(* button is enabled only when no run has a callback or a request pending  *)
(* and no queue is being played, so no second run starts, or overwrites    *)
(* currentUrls and currentIndex, while an earlier one is under way.        *)
(***************************************************************************)
RunsUnderWay == {r \in 1..Len(runs) : UnderWay(runs[r])}

C20_OneRunAtATime ==
  /\ Cardinality(RunsUnderWay) <= 1
  /\ ~startBtnDisabled => (RunsUnderWay = {} /\ ~audioPlayer.playing)

(***************************************************************************)
(* C21: if the audio element rejects the play() call for segment i (the    *)
(* rejection is caught in playNext), the controller still leaves segment i *)
(* without a click of the user: it goes on to segment i+1 or ends the      *)
(* queue, and the object URL of segment i is released.  Hence a rejected   *)
(* play never stays: the element does not keep holding a URL that it       *)
(* neither plays nor has ended and that is not revoked.                    *)
(***************************************************************************)
C21_RejectedPlayMovesOn == SinkSilent ~> ~SinkSilent

(***************************************************************************)
(* The background service worker (background.js): splitText,               *)
(* synthesizeSegment and the onMessage listener, as functions of the text  *)
(* of the message, the settings read and the answers of the endpoint to    *)
(* the requests in the order they are made.  regex.exec, atob and the      *)
(* reading of a body are the platform's, the same in both contexts.        *)
(***************************************************************************)
\* Mutant: the slice takes one character more.
BgSliceEnd_OneMore(st, maxLength) == st.start + maxLength + 1

\* text.slice(start, start + maxLength)
BgSliceEnd(st, maxLength) == st.start + maxLength

BgSplitBody(text, maxLength, st) ==
  [start    |-> st.start + maxLength,
   segments |-> Append(st.segments,
                       Slice(text, st.start, BgSliceEnd(st, maxLength)))]

RECURSIVE BgSplitRun(_, _, _, _)
BgSplitRun(text, maxLength, st, fuel) ==
  IF ~(st.start < Len(text))
  THEN [returned |-> TRUE, segments |-> st.segments]
  ELSE IF fuel = 0 THEN [returned |-> FALSE, segments |-> st.segments]
  ELSE BgSplitRun(text, maxLength, BgSplitBody(text, maxLength, st), fuel - 1)

splitText(text, maxLength) ==
  BgSplitRun(text, maxLength, [start |-> 0, segments |-> <<>>], Len(text) + 1)

\* The body of the while loop of synthesizeSegment for a match m.
BgScanBody(st, m) ==
  LET b64 == m.group1
      decoded == Atob(b64)
  IN IF b64 # <<>> /\ b64 # StrNull /\ decoded.ok
     THEN [lastIndex   |-> m.lastIndex,
           audioChunks |-> Append(st.audioChunks, decoded.bytes),
           totalLength |-> st.totalLength + Len(decoded.bytes)]
     ELSE [st EXCEPT !.lastIndex = m.lastIndex]

RECURSIVE BgScanRun(_, _)
BgScanRun(text, st) ==
  LET m == RegexExec(text, st.lastIndex)
  IN IF m.found THEN BgScanRun(text, BgScanBody(st, m))
     ELSE IF Len(st.audioChunks) = 0 THEN Threw(MsgNoAudio, 0, "")
     ELSE Returned(Merge(st.audioChunks, st.totalLength))

\* synthesizeSegment from the response of its fetch on.
synthesizeSegment(resp) ==
  IF ~resp.ok THEN Threw(MsgHttp, resp.status, resp.statusText)
  ELSE LET lowerType == ToLowerCase(ContentTypeOf(resp))
       IN IF Includes(lowerType, StrApplicationJson)
             \/ Includes(lowerType, StrText)
          THEN BgScanRun(ResponseText(resp.body),
                         [lastIndex |-> 0, audioChunks |-> <<>>,
                          totalLength |-> 0])
          ELSE Returned(resp.body)

\* What the listener has come to: still awaiting a fetch, returned
\* {buffers, format}, returned {error}, or caught in a loop without end.
BgOutcome(pc, requests, buffers, format, error) ==
  [pc |-> pc, requests |-> requests, buffers |-> buffers, format |-> format,
   error |-> error]

\* for (const segment of segments): the segments from the k-th on, with the
\* answers of the endpoint that have arrived so far.
RECURSIVE BgLoop(_, _, _, _, _, _)
BgLoop(segments, k, settings, responses, requests, buffers) ==
  IF k > Len(segments)
  THEN BgOutcome("returned", requests, buffers, settings.format,
                 NoResult.error)
  ELSE LET sent == Append(requests, [text |-> segments[k],
                                     format |-> settings.format])
       IN IF k > Len(responses)
          THEN BgOutcome("fetch", sent, buffers, "", NoResult.error)
          ELSE IF responses[k] = NetworkFailure
          THEN BgOutcome("error", sent, <<>>, "",
                         Threw(MsgFetchFailed, 0, "").error)
          ELSE LET result == synthesizeSegment(responses[k])
               IN IF ~result.ok
                  THEN BgOutcome("error", sent, <<>>, "", result.error)
                  ELSE BgLoop(segments, k + 1, settings, responses, sent,
                              Append(buffers, result.buffer))

\* The onMessage listener for a synthesize message, from the settings on.
onMessage(text, settings, responses) ==
  IF settings.apiKey = "" \/ settings.resourceId = "" \/ settings.speaker = ""
  THEN BgOutcome("error", <<>>, <<>>, "", Threw(MsgPrecondition, 0, "").error)
  ELSE LET maxLength == IF settings.maxLength = 0 THEN DefaultMaxLength
                        ELSE settings.maxLength
           split == splitText(text, maxLength)
       IN IF ~split.returned
          THEN BgOutcome("hung", <<>>, <<>>, "", NoResult.error)
          ELSE BgLoop(split.segments, 1, settings, responses, <<>>, <<>>)

(***************************************************************************)
(* C22: the background pipeline and the popup pipeline are one algorithm:  *)
(* on the same text, the same settings and the same answers of the         *)
(* endpoint they make the same requests in the same order, and either both *)
(* give the same buffers in the same order with the same format, or both   *)
(* fail at the same segment with the same message (the popup throws, the   *)
(* background returns {error} and no buffers).                             *)
(***************************************************************************)
\* The texts a run of the popup can have been given: its text while it has
\* it, else the page texts its segments are the segments of.
TextsOf(run) ==
  IF run.text # <<>> THEN {run.text}
  ELSE {t \in {Trim(pageText) : pageText \in env.pageTexts} :
          /\ t # <<>>
          /\ run.segments # <<>> => Concat(run.segments) = t}

\* The answers that have been received whole.
AnswersOf(run) ==
  IF run.pc = "body" THEN SubSeq(run.calls, 1, Len(run.calls) - 1)
  ELSE run.calls

SamePipeline(run, bg) ==
  /\ bg.requests = run.requests
  /\ run.pc \in {"fetch", "body"} =>
        (bg.pc = "fetch" /\ bg.buffers = run.buffers)
  /\ run.pc = "storageGet" =>
        /\ bg.pc = "returned"
        /\ bg.buffers = run.buffers
        /\ bg.format = run.settings.format
  /\ run.pc \in {"played", "noSegments"} =>
        /\ bg.pc = "returned"
        /\ Len(bg.buffers) = Len(run.urls)
        /\ bg.format = run.settings.format
  /\ run.pc = "failed" =>
        /\ bg.pc = "error"
        /\ bg.error = run.error
        /\ bg.buffers = <<>>
        /\ Len(bg.requests) = run.fetches
  /\ run.pc = "hung" => bg.pc = "hung"

C22_SamePipeline ==
  \A r \in 1..Len(runs) :
     SettingsRead(runs[r]) =>
        \A text \in TextsOf(runs[r]) :
           SamePipeline(runs[r],
                        onMessage(text, runs[r].settings, AnswersOf(runs[r])))

C22_Witness ==
  \E r \in 1..Len(runs) :
     /\ runs[r].pc = "failed"
     /\ runs[r].calls = <<RespBinary, RespJson, RespNoAudio>>
     /\ onMessage(<<"a", "b", "c">>, runs[r].settings, runs[r].calls).error
           = runs[r].error
     /\ Len(onMessage(<<"a", "b", "c">>, runs[r].settings,
                      runs[r].calls).requests) = 3

====
